---- MODULE Spec2Model ----
(***************************************************************************)
(* A model of dilay's winged-edge mesh kernel (src/src/winged/mesh.cpp)    *)
(* and of the scene that owns the meshes (src/lib/src/scene.cpp):          *)
(* the topology store (vertices, edges), the octree that owns the faces,   *)
(* the render buffer (class Mesh) and the index-slot allocator             *)
(* (freeFirstIndexNumbers), with one action per operation of               *)
(* WingedMesh::Impl; and the scene's mesh lists, id maps, selection and    *)
(* selection mode, with one action per operation of Scene::Impl.           *)
(*                                                                         *)
(* class Mesh, class Octree and class WingedFace are defined in other      *)
(* files of the repository; the operators that stand for them follow the   *)
(* specification of the kernel (sections 4.1, 4.4 and 4.5). So are         *)
(* IdMapPtr, Selection, SelectionModeUtil and the intersection records     *)
(* the scene works with. The scene is explored with the meshes it owns     *)
(* reduced to their ids: what a ray hits in a mesh is an input of the      *)
(* query.                                                                  *)
(*                                                                         *)
(* The operations that only forward a raw buffer access to class Mesh      *)
(* (vertex, index, normal, addIndex, setIndex, setVertex, setNormal),      *)
(* the sphere intersection queries of the mesh, render and                 *)
(* toggleRenderMode are not part of the model.                             *)
(***************************************************************************)
EXTENDS Integers, Sequences, FiniteSets, TLC

\* ------------------------------------------------------------- bounds
MaxFaces    == 3   \* live faces, and the face ids in use
MaxVertices == 1   \* vertices
MaxEdges    == 1   \* stored edges, and the edge ids in use
MaxEdgesAlone == 3 \* stored edges when the edge store is explored on its own
MaxEdgeIds    == 2 \* edge ids in use when the edge store is explored on its own

MaxMeshes   == 2   \* meshes in each list of the scene, and the mesh ids in use
MaxDistance == 2   \* distances at which a ray hits a mesh
MaxSubIds   == 1   \* ids of the face or node a ray hits in a mesh

FaceIds == 1 .. MaxFaces
MeshIds == 1 .. MaxMeshes
Distances == 1 .. MaxDistance
SubIds == 1 .. MaxSubIds
EdgeIds == 1 .. MaxEdges
EdgeIdsAlone == 1 .. MaxEdgeIds

\* An index slot nothing was written to yet (allocateIndices and a growing
\* resizeIndices leave the new slots uninitialised). The slot keeps whatever
\* it happens to hold until it is written, and no operation of the mesh
\* reads it, so one token stands for that value.
Uninit == << 0, 0 >>

VARIABLES
  vertices,               \* std::list <WingedVertex>: the buffer index of each vertex
  edges,                  \* std::list <WingedEdge>: [id, iterator] of each stored edge
  octree,                 \* Octree: [root, faces], faces in forEachFace order
  freeFirstIndexNumbers,  \* std::set <unsigned int>
  meshVertices,           \* Mesh: one entry per position/normal of the render buffer
  meshIndices,            \* Mesh: the flat index array
  failed,                 \* an assertion has failed: the program has stopped
  dirty,                  \* history: a structural edit happened since the last write ()
  last,                   \* history: the last operation and the counts it started from
  prev,                   \* history: the operation before the last one
  wingedMeshes,           \* Scene: std::list <WingedMesh>, the id of each mesh
  sphereMeshes,           \* Scene: std::list <SphereMesh>, the id of each mesh
  wingedMeshIdMap,        \* Scene: IdMapPtr <WingedMesh>, the ids it resolves
  sphereMeshIdMap,        \* Scene: IdMapPtr <SphereMesh>, the ids it resolves
  selection,              \* Scene: Selection, [majors, minors]
  selectionMode           \* Scene: SelectionMode

progVars == << vertices, edges, octree, freeFirstIndexNumbers, meshVertices, meshIndices >>
sceneVars == << wingedMeshes, sphereMeshes, wingedMeshIdMap, sphereMeshIdMap
             , selection, selectionMode >>
vars     == << vertices, edges, octree, freeFirstIndexNumbers, meshVertices, meshIndices
            , failed, dirty, last, prev
            , wingedMeshes, sphereMeshes, wingedMeshIdMap, sphereMeshIdMap
            , selection, selectionMode >>

\* ------------------------------------------------------------- helpers
Min (S) == CHOOSE x \in S : \A y \in S : x <= y

InsertAt (s, p, x) == SubSeq (s, 1, p - 1) \o << x >> \o SubSeq (s, p, Len (s))
RemoveAt (s, p)    == SubSeq (s, 1, p - 1) \o SubSeq (s, p + 1, Len (s))

NoArg == [ id |-> 0, fin |-> 0 ]

\* What the history keeps of the state an operation starts in.
Snapshot == [ numVertices |-> Len (vertices)
            , numEdges    |-> Len (edges)
            , numFaces    |-> Len (octree.faces)
            , numIndices  |-> Len (meshIndices)
            , free        |-> freeFirstIndexNumbers
            , dirty       |-> dirty ]

\* The history of an operation of the mesh, which leaves the scene alone.
Record (op, arg) ==
  /\ last' = [ op |-> op, arg |-> arg, pre |-> Snapshot ]
  /\ prev' = [ op |-> last.op, id |-> last.arg.id ]
  /\ UNCHANGED sceneVars

\* The history of an operation of the scene: res is what it answered or
\* what it started from.
RecordScene (op, arg, res) ==
  /\ last' = [ op |-> op, arg |-> arg, pre |-> Snapshot, res |-> res ]
  /\ prev' = [ op |-> last.op, id |-> last.arg.id ]

\* ------------------------------------------------------------- queries
numFaces   == Len (octree.faces)
numIndices == Len (meshIndices)
numEdges   == Len (edges)

\* numVertices () asserts that both vertex counts agree before it answers.
numVerticesAsserts == Len (meshVertices) # Len (vertices)
numVertices        == Len (vertices)

isEmpty == numVertices = 0 /\ numFaces = 0 /\ numIndices = 0

hasFreeFirstIndexNumber == Cardinality (freeFirstIndexNumbers) > 0

\* Mutant of nextFreeFirstIndexNumber: the largest free offset (rbegin).
nextFreeFirstIndexNumberLargest ==
  CHOOSE x \in freeFirstIndexNumbers : \A y \in freeFirstIndexNumbers : y <= x

\* *freeFirstIndexNumbers.begin (): the smallest element of the ordered set.
nextFreeFirstIndexNumber == Min (freeFirstIndexNumbers)

\* Octree::face (id): the stored face with this id, or none (the empty set).
FaceIdsOf (fs) == { fs[i].id : i \in 1 .. Len (fs) }
Faces (o)      == { o.faces[i] : i \in 1 .. Len (o.faces) }
face (o, id)   == { f \in Faces (o) : f.id = id }

\* ------------------------------------------------------------- initial state
SelectionModes == { "Freeform", "SphereNode" }
MeshTypes      == { "Freeform", "Sphere" }

\* A scene with no mesh and nothing selected. Scene::Impl declares no
\* constructor, so selectionMode starts with whatever value the
\* construction leaves in it.
InitScene (modes) ==
  /\ wingedMeshes = << >>
  /\ sphereMeshes = << >>
  /\ wingedMeshIdMap = {}
  /\ sphereMeshIdMap = {}
  /\ selection = [ majors |-> {}, minors |-> {} ]
  /\ selectionMode \in modes

\* A mesh as its constructor leaves it.
InitMesh ==
  /\ vertices = << >>
  /\ edges = << >>
  /\ octree = [ root |-> FALSE, faces |-> << >> ]
  /\ freeFirstIndexNumbers = {}
  /\ meshVertices = << >>
  /\ meshIndices = << >>
  /\ failed = FALSE
  /\ dirty = FALSE
  /\ last = [ op |-> "none", arg |-> NoArg
            , pre |-> [ numVertices |-> 0, numEdges |-> 0, numFaces |-> 0
                      , numIndices |-> 0, free |-> {}, dirty |-> FALSE ] ]
  /\ prev = [ op |-> "none", id |-> 0 ]

\* One mesh explored on its own: no operation of the mesh reads the scene,
\* whose selection mode is held at one of its values.
Init == InitMesh /\ InitScene ({ "Freeform" })

\* A scene explored on its own, from any value of its selection mode; the
\* one mesh of the model stays as constructed.
InitOfScene == InitMesh /\ InitScene (SelectionModes)

\* ------------------------------------------------------------- class Mesh
\* Mesh::allocateIndices (n): n uninitialised slots at the end.
allocateIndices (idx, n) == idx \o [ k \in 1 .. n |-> Uninit ]

\* Mesh::popIndices (n): shrink by n from the tail.
popIndices (idx, n) == SubSeq (idx, 1, Len (idx) - n)

\* Mesh::resizeIndices (n): to exactly n slots, the prefix kept, the slots
\* of a growing resize uninitialised.
resizeIndices (idx, n) ==
  IF n <= Len (idx) THEN SubSeq (idx, 1, n)
                    ELSE idx \o [ k \in 1 .. n - Len (idx) |-> Uninit ]

\* Mesh::setIndex (indexNumber, index) requires the slot to exist.
setIndexAsserts (idx, indexNumber) == ~ (indexNumber < Len (idx))
setIndex (idx, indexNumber, index) == [ idx EXCEPT ![indexNumber + 1] = index ]

\* ------------------------------------------------------------- class Octree
\* Octree::insertFace: the face is stored in the node its geometry selects;
\* p is the place this gives it in the order of forEachFace.
insertFace (o, f, p) == [ o EXCEPT !.faces = InsertAt (o.faces, p, f) ]

\* Octree::deleteFace: the face stored at place p is removed.
octreeDeleteFace (o, p) == [ o EXCEPT !.faces = RemoveAt (o.faces, p) ]

\* ------------------------------------------------------------- class WingedFace
\* WingedFace::writeIndices (mesh, newFIN): the face takes newFIN as its
\* firstIndexNumber when one is given (newFIN >= 0) and writes the buffer
\* indices of its three vertices, <<id, 1>> .. <<id, 3>>, from there on.
faceWithFIN (f, newFIN) == IF newFIN >= 0 THEN [ f EXCEPT !.fin = newFIN ] ELSE f

faceWriteIndicesAsserts (f, idx) ==
  \E k \in 0 .. 2 : setIndexAsserts (idx, f.fin + k)

faceWriteIndices (f, idx) ==
  setIndex (setIndex (setIndex (idx, f.fin, << f.id, 1 >>)
                     , f.fin + 1, << f.id, 2 >>)
           , f.fin + 2, << f.id, 3 >>)

\* ------------------------------------------------------------- writeIndices
\* Mutant of forEachFaceWrite: on the repack path a face writes its indices at
\* its old firstIndexNumber and takes the new one afterwards.
RECURSIVE forEachFaceWriteThenRenumber (_, _, _, _)
forEachFaceWriteThenRenumber (fs, idx, i, repack) ==
  IF i > Len (fs) THEN [ ok |-> TRUE, faces |-> fs, indices |-> idx ]
  ELSE LET f == faceWithFIN (fs[i], IF repack THEN 3 * (i - 1) ELSE -1)
       IN  IF faceWriteIndicesAsserts (fs[i], idx)
             THEN [ ok |-> FALSE, faces |-> fs, indices |-> idx ]
             ELSE forEachFaceWriteThenRenumber ( [ fs EXCEPT ![i] = f ]
                                               , faceWriteIndices (fs[i], idx)
                                               , i + 1, repack )

\* Mutant of forEachFaceWrite: the repack path never advances the running
\* offset, so every face is given firstIndexNumber 0.
RECURSIVE forEachFaceWriteSameFIN (_, _, _, _)
forEachFaceWriteSameFIN (fs, idx, i, repack) ==
  IF i > Len (fs) THEN [ ok |-> TRUE, faces |-> fs, indices |-> idx ]
  ELSE LET f == faceWithFIN (fs[i], IF repack THEN 0 ELSE -1)
       IN  IF faceWriteIndicesAsserts (f, idx)
             THEN [ ok |-> FALSE, faces |-> fs, indices |-> idx ]
             ELSE forEachFaceWriteSameFIN ( [ fs EXCEPT ![i] = f ]
                                          , faceWriteIndices (f, idx)
                                          , i + 1, repack )

\* octree.forEachFace over the faces from place i on: each face is given the
\* next sequential firstIndexNumber (repack) or keeps its own (in place) and
\* writes its indices. The result has ok = FALSE when a write hit a slot
\* that does not exist.
RECURSIVE forEachFaceWrite (_, _, _, _)
forEachFaceWrite (fs, idx, i, repack) ==
  IF i > Len (fs) THEN [ ok |-> TRUE, faces |-> fs, indices |-> idx ]
  ELSE LET f == faceWithFIN (fs[i], IF repack THEN 3 * (i - 1) ELSE -1)
       IN  IF faceWriteIndicesAsserts (f, idx)
             THEN [ ok |-> FALSE, faces |-> fs, indices |-> idx ]
             ELSE forEachFaceWrite ( [ fs EXCEPT ![i] = f ]
                                   , faceWriteIndices (f, idx), i + 1, repack )

\* Mutant of writeIndices: the repack path does not resize the index array.
writeIndicesNoResize ==
  LET r == forEachFaceWrite ( octree.faces, meshIndices, 1
                            , Cardinality (freeFirstIndexNumbers) > 0 )
  IN  [ ok |-> r.ok, faces |-> r.faces, indices |-> r.indices, free |-> {} ]

\* Mutant of writeIndices: the repack path does not clear the free set.
writeIndicesNoClear ==
  IF Cardinality (freeFirstIndexNumbers) > 0
    THEN LET r == forEachFaceWrite ( octree.faces
                                   , resizeIndices (meshIndices, numFaces * 3)
                                   , 1, TRUE )
         IN  [ ok |-> r.ok, faces |-> r.faces, indices |-> r.indices
             , free |-> freeFirstIndexNumbers ]
    ELSE LET r == forEachFaceWrite (octree.faces, meshIndices, 1, FALSE)
         IN  [ ok |-> r.ok, faces |-> r.faces, indices |-> r.indices
             , free |-> freeFirstIndexNumbers ]

\* WingedMesh::Impl::writeIndices, as the state it leaves.
writeIndices ==
  IF Cardinality (freeFirstIndexNumbers) > 0
    THEN LET r == forEachFaceWrite ( octree.faces
                                   , resizeIndices (meshIndices, numFaces * 3)
                                   , 1, TRUE )
         IN  [ ok |-> r.ok, faces |-> r.faces, indices |-> r.indices, free |-> {} ]
    ELSE LET r == forEachFaceWrite (octree.faces, meshIndices, 1, FALSE)
         IN  [ ok |-> r.ok, faces |-> r.faces, indices |-> r.indices
             , free |-> freeFirstIndexNumbers ]

\* WingedMesh::Impl::writeNormals: every vertex writes its normal at its
\* buffer index (Mesh::setNormal requires the index to exist).
writeNormalsAsserts ==
  \E i \in 1 .. Len (vertices) : ~ (vertices[i] < Len (meshVertices))
writeNormals ==
  [ n \in 1 .. Len (meshVertices) |->
      IF \E i \in 1 .. Len (vertices) : vertices[i] = n - 1
        THEN "written" ELSE meshVertices[n] ]

\* An operation whose assertion fails stops the program where it stands.
Abort (op, arg) ==
  /\ failed' = TRUE
  /\ Record (op, arg)
  /\ UNCHANGED << progVars, dirty >>

\* ------------------------------------------------------------- operations
InitOctreeRoot ==
  /\ ~ failed
  /\ IF numVerticesAsserts \/ ~ isEmpty
       THEN Abort ("initOctreeRoot", NoArg)
       ELSE /\ octree' = [ octree EXCEPT !.root = TRUE ]
            /\ Record ("initOctreeRoot", NoArg)
            /\ UNCHANGED << vertices, edges, freeFirstIndexNumbers, meshVertices
                          , meshIndices, failed, dirty >>

AddVertex ==
  /\ ~ failed
  /\ Len (vertices) < MaxVertices
  /\ LET index == Len (meshVertices) IN
       /\ meshVertices' = Append (meshVertices, "unset")
       /\ vertices' = Append (vertices, index)
  /\ dirty' = TRUE
  /\ Record ("addVertex", NoArg)
  /\ UNCHANGED << edges, octree, freeFirstIndexNumbers, meshIndices, failed >>

\* Mutant of PopVertex: the render buffer keeps its last vertex.
PopVertexKeepsBuffer ==
  /\ ~ failed
  /\ Len (vertices) > 0
  /\ vertices' = SubSeq (vertices, 1, Len (vertices) - 1)
  /\ dirty' = TRUE
  /\ Record ("popVertex", NoArg)
  /\ UNCHANGED << edges, octree, freeFirstIndexNumbers, meshVertices, meshIndices
                , failed >>

PopVertex ==
  /\ ~ failed
  /\ Len (vertices) > 0
  /\ Len (meshVertices) > 0
  /\ meshVertices' = SubSeq (meshVertices, 1, Len (meshVertices) - 1)
  /\ vertices' = SubSeq (vertices, 1, Len (vertices) - 1)
  /\ dirty' = TRUE
  /\ Record ("popVertex", NoArg)
  /\ UNCHANGED << edges, octree, freeFirstIndexNumbers, meshIndices, failed >>

\* The list node edges.emplace_back creates. A std::list never moves a stored
\* element and gives out no node that a stored element lives in; which node
\* it is does not matter to the program, so the nodes are numbered and the
\* new one is the smallest number no stored edge has.
newEdgeIterator ==
  Min ((1 .. numEdges + 1) \ { edges[i].iterator : i \in 1 .. numEdges })

\* addEdge appends a copy of the prototype (its id stands for the copied
\* fields) and stores in it the iterator of its own list node. The store is
\* explored up to maxEdges edges with prototype ids from ids.
AddEdgeOf (maxEdges, ids) ==
  /\ ~ failed
  /\ numEdges < maxEdges
  /\ \E id \in ids :
       LET e == [ id |-> id, iterator |-> newEdgeIterator ] IN
       /\ edges' = Append (edges, e)
       /\ Record ("addEdge", [ id |-> id, fin |-> 0, iterator |-> e.iterator ])
  /\ dirty' = TRUE
  /\ UNCHANGED << vertices, octree, freeFirstIndexNumbers, meshVertices
                , meshIndices, failed >>

AddEdge == AddEdgeOf (MaxEdges, EdgeIds)

\* Mutant of DeleteEdge: every stored edge with the id of the given edge is
\* removed.
DeleteEdgeById ==
  /\ ~ failed
  /\ \E p \in 1 .. numEdges :
       LET e == edges[p] IN
       /\ edges' = SelectSeq (edges, LAMBDA x : x.id # e.id)
       /\ Record ("deleteEdge", [ id |-> e.id, fin |-> 0, iterator |-> e.iterator ])
  /\ dirty' = TRUE
  /\ UNCHANGED << vertices, octree, freeFirstIndexNumbers, meshVertices
                , meshIndices, failed >>

\* deleteEdge (e), e one of the stored edges: the list node e.iterator ()
\* names is erased.
DeleteEdge ==
  /\ ~ failed
  /\ \E p \in 1 .. numEdges :
       LET e == edges[p] IN
       /\ edges' = SelectSeq (edges, LAMBDA x : x.iterator # e.iterator)
       /\ Record ("deleteEdge", [ id |-> e.id, fin |-> 0, iterator |-> e.iterator ])
  /\ dirty' = TRUE
  /\ UNCHANGED << vertices, octree, freeFirstIndexNumbers, meshVertices
                , meshIndices, failed >>

\* Mutant of AddFace: the buffer grows by 3 also when a free offset is reused.
AddFaceReuseAndGrow ==
  /\ ~ failed
  /\ octree.root
  /\ numFaces < MaxFaces
  /\ \E id \in FaceIds \ FaceIdsOf (octree.faces), p \in 1 .. numFaces + 1 :
       LET firstIndexNumber == IF hasFreeFirstIndexNumber
                                 THEN nextFreeFirstIndexNumber ELSE numIndices IN
       /\ freeFirstIndexNumbers' = freeFirstIndexNumbers \ { firstIndexNumber }
       /\ meshIndices' = allocateIndices (meshIndices, 3)
       /\ octree' = insertFace (octree, [ id |-> id, fin |-> firstIndexNumber ], p)
       /\ Record ("addFace", [ id |-> id, fin |-> firstIndexNumber ])
  /\ dirty' = TRUE
  /\ UNCHANGED << vertices, edges, meshVertices, failed >>

\* Mutant of AddFace: a reused offset is not erased from the free set.
AddFaceKeepsFree ==
  /\ ~ failed
  /\ octree.root
  /\ numFaces < MaxFaces
  /\ \E id \in FaceIds \ FaceIdsOf (octree.faces), p \in 1 .. numFaces + 1 :
       LET firstIndexNumber == IF hasFreeFirstIndexNumber
                                 THEN nextFreeFirstIndexNumber ELSE numIndices IN
       /\ freeFirstIndexNumbers' = freeFirstIndexNumbers
       /\ meshIndices' = IF hasFreeFirstIndexNumber
                           THEN meshIndices ELSE allocateIndices (meshIndices, 3)
       /\ octree' = insertFace (octree, [ id |-> id, fin |-> firstIndexNumber ], p)
       /\ Record ("addFace", [ id |-> id, fin |-> firstIndexNumber ])
  /\ dirty' = TRUE
  /\ UNCHANGED << vertices, edges, meshVertices, failed >>

AddFace ==
  /\ ~ failed
  /\ octree.root
  /\ numFaces < MaxFaces
  /\ \E id \in FaceIds \ FaceIdsOf (octree.faces), p \in 1 .. numFaces + 1 :
       IF hasFreeFirstIndexNumber
         THEN LET firstIndexNumber == nextFreeFirstIndexNumber IN
              /\ freeFirstIndexNumbers' = freeFirstIndexNumbers \ { firstIndexNumber }
              /\ meshIndices' = meshIndices
              /\ octree' = insertFace (octree, [ id |-> id, fin |-> firstIndexNumber ], p)
              /\ Record ("addFace", [ id |-> id, fin |-> firstIndexNumber ])
         ELSE LET firstIndexNumber == numIndices IN
              /\ freeFirstIndexNumbers' = freeFirstIndexNumbers
              /\ meshIndices' = allocateIndices (meshIndices, 3)
              /\ octree' = insertFace (octree, [ id |-> id, fin |-> firstIndexNumber ], p)
              /\ Record ("addFace", [ id |-> id, fin |-> firstIndexNumber ])
  /\ dirty' = TRUE
  /\ UNCHANGED << vertices, edges, meshVertices, failed >>

\* Mutant of DeleteFace: the face is not removed from the octree.
DeleteFaceKeepsInOctree ==
  /\ ~ failed
  /\ \E p \in 1 .. numFaces :
       LET f == octree.faces[p] IN
       /\ IF f.fin = numIndices - 3
            THEN /\ meshIndices' = popIndices (meshIndices, 3)
                 /\ freeFirstIndexNumbers' = freeFirstIndexNumbers
            ELSE /\ freeFirstIndexNumbers' = freeFirstIndexNumbers \cup { f.fin }
                 /\ meshIndices' = meshIndices
       /\ octree' = octree
       /\ Record ("deleteFace", f)
  /\ dirty' = TRUE
  /\ UNCHANGED << vertices, edges, meshVertices, failed >>

\* Mutant of DeleteFace: the trailing face is compared with numIndices (), so
\* the buffer never shrinks and every deleted face leaves a free offset.
DeleteFaceNoShrink ==
  /\ ~ failed
  /\ \E p \in 1 .. numFaces :
       LET f == octree.faces[p] IN
       /\ IF f.fin = numIndices
            THEN /\ meshIndices' = popIndices (meshIndices, 3)
                 /\ freeFirstIndexNumbers' = freeFirstIndexNumbers
            ELSE /\ freeFirstIndexNumbers' = freeFirstIndexNumbers \cup { f.fin }
                 /\ meshIndices' = meshIndices
       /\ octree' = octreeDeleteFace (octree, p)
       /\ Record ("deleteFace", f)
  /\ dirty' = TRUE
  /\ UNCHANGED << vertices, edges, meshVertices, failed >>

\* face.firstIndexNumber () == numIndices () - 3 compares unsigned ints. With
\* fewer than 3 indices the difference wraps to 2^32 - 3 .. 2^32 - 1, which
\* no firstIndexNumber of the model equals; the integer difference (negative
\* there) decides the comparison the same way.
DeleteFace ==
  /\ ~ failed
  /\ \E p \in 1 .. numFaces :
       LET f == octree.faces[p] IN
       /\ IF f.fin = numIndices - 3
            THEN /\ meshIndices' = popIndices (meshIndices, 3)
                 /\ freeFirstIndexNumbers' = freeFirstIndexNumbers
            ELSE /\ freeFirstIndexNumbers' = freeFirstIndexNumbers \cup { f.fin }
                 /\ meshIndices' = meshIndices
       /\ octree' = octreeDeleteFace (octree, p)
       /\ Record ("deleteFace", f)
  /\ dirty' = TRUE
  /\ UNCHANGED << vertices, edges, meshVertices, failed >>

\* Octree::realignFace: the face's new geometry may give it another place in
\* the order of forEachFace; the face itself is unchanged.
RealignFace ==
  /\ ~ failed
  /\ \E p \in 1 .. numFaces, q \in 1 .. numFaces :
       /\ octree' = insertFace (octreeDeleteFace (octree, p), octree.faces[p], q)
       /\ Record ("realignFace", octree.faces[p])
  /\ UNCHANGED << vertices, edges, freeFirstIndexNumbers, meshVertices
                , meshIndices, failed, dirty >>

Write ==
  /\ ~ failed
  /\ LET w == writeIndices IN
     IF ~ w.ok \/ writeNormalsAsserts
       THEN Abort ("write", NoArg)
       ELSE /\ octree' = [ octree EXCEPT !.faces = w.faces ]
            /\ meshIndices' = w.indices
            /\ freeFirstIndexNumbers' = w.free
            /\ meshVertices' = writeNormals
            /\ dirty' = FALSE
            /\ Record ("write", NoArg)
            /\ UNCHANGED << vertices, edges, failed >>

\* Mutant of BufferData: the assertion is missing.
BufferDataNoAssert ==
  /\ ~ failed
  /\ Record ("bufferData", NoArg)
  /\ UNCHANGED << progVars, failed, dirty >>

BufferData ==
  /\ ~ failed
  /\ IF Cardinality (freeFirstIndexNumbers) # 0
       THEN Abort ("bufferData", NoArg)
       ELSE /\ Record ("bufferData", NoArg)
            /\ UNCHANGED << progVars, failed, dirty >>

WriteAndBuffer ==
  /\ ~ failed
  /\ LET w == writeIndices IN
     IF ~ w.ok \/ writeNormalsAsserts \/ Cardinality (w.free) # 0
       THEN Abort ("writeAndBuffer", NoArg)
       ELSE /\ octree' = [ octree EXCEPT !.faces = w.faces ]
            /\ meshIndices' = w.indices
            /\ freeFirstIndexNumbers' = w.free
            /\ meshVertices' = writeNormals
            /\ dirty' = FALSE
            /\ Record ("writeAndBuffer", NoArg)
            /\ UNCHANGED << vertices, edges, failed >>

\* Mutant of Reset: the edges are not cleared.
ResetKeepsEdges ==
  /\ ~ failed
  /\ meshVertices' = << >>
  /\ meshIndices' = << >>
  /\ vertices' = << >>
  /\ octree' = [ root |-> FALSE, faces |-> << >> ]
  /\ Record ("reset", NoArg)
  /\ UNCHANGED << edges, freeFirstIndexNumbers, failed, dirty >>

\* reset () clears the render buffer, the vertices, the edges and the octree;
\* it does not touch freeFirstIndexNumbers.
Reset ==
  /\ ~ failed
  /\ meshVertices' = << >>
  /\ meshIndices' = << >>
  /\ vertices' = << >>
  /\ edges' = << >>
  /\ octree' = [ root |-> FALSE, faces |-> << >> ]
  /\ Record ("reset", NoArg)
  /\ UNCHANGED << freeFirstIndexNumbers, failed, dirty >>

\* ------------------------------------------------------------- the scene
\* Selection: the selected major ids and the selected (major, minor) pairs;
\* reset () empties both, a toggle selects what was not selected and
\* unselects what was.
selectionReset == [ majors |-> {}, minors |-> {} ]
toggleMajor (s, id) ==
  [ s EXCEPT !.majors = IF id \in @ THEN @ \ { id } ELSE @ \cup { id } ]
toggleMinor (s, major, minor) ==
  [ s EXCEPT !.minors = IF << major, minor >> \in @
                          THEN @ \ { << major, minor >> }
                          ELSE @ \cup { << major, minor >> } ]
numMajors (s) == Cardinality (s.majors)
numMinors (s) == Cardinality (s.minors)

\* SelectionModeUtil::isMajor: Freeform selects whole meshes (majors),
\* SphereNode selects nodes of a mesh (minors).
isMajor (t) == t = "Freeform"

numSelections ==
  IF isMajor (selectionMode) THEN numMajors (selection) ELSE numMinors (selection)

\* The id of a default-constructed Id, which isValid () rejects.
InvalidId == 0

\* An intersection record that holds no intersection, and the values such a
\* record can hold when a caller hands it in.
NoIntersection == [ isIntersection |-> FALSE, distance |-> 0, mesh |-> 0, sub |-> 0 ]
Intersections ==
  { NoIntersection }
    \cup [ isIntersection : { TRUE }, distance : Distances, mesh : MeshIds, sub : SubIds ]

\* What a ray does in one mesh: it misses, or it hits the face (node) sub at
\* a distance. A ray is given by what it does in each mesh of a list.
Miss == [ distance |-> 0, sub |-> 0 ]
Hits == { Miss } \cup [ distance : Distances, sub : SubIds ]
Rays (n) == [ 1 .. n -> Hits ]

\* Octree::intersects for the mesh id and a ray that does h in it: the hit
\* is recorded where it is closer than what the record holds, a miss leaves
\* the record untouched; the answer is whether a hit occurred.
octreeIntersects (id, h, out) ==
  IF h = Miss
    THEN [ hit |-> FALSE, out |-> out ]
    ELSE [ hit |-> TRUE
         , out |-> IF ~ out.isIntersection \/ h.distance < out.distance
                     THEN [ isIntersection |-> TRUE, distance |-> h.distance
                          , mesh |-> id, sub |-> h.sub ]
                     ELSE out ]

\* WingedMesh::Impl::intersects (ray, intersection).
meshIntersects (id, h, out) == octreeIntersects (id, h, out)

\* SphereMesh::intersects (ray, intersection).
sphereMeshIntersects (id, h, out) ==
  IF h = Miss
    THEN [ hit |-> FALSE, out |-> out ]
    ELSE [ hit |-> TRUE
         , out |-> IF ~ out.isIntersection \/ h.distance < out.distance
                     THEN [ isIntersection |-> TRUE, distance |-> h.distance
                          , mesh |-> id, sub |-> h.sub ]
                     ELSE out ]

\* for (WingedMesh& m : wingedMeshes) m.intersects (ray, intersection), from
\* the mesh at place i on. The loop drops what each mesh answers; reported
\* keeps whether one of them answered true.
RECURSIVE forEachWingedMeshIntersects (_, _, _, _, _)
forEachWingedMeshIntersects (ms, ray, i, out, reported) ==
  IF i > Len (ms) THEN [ out |-> out, reported |-> reported ]
  ELSE LET r == meshIntersects (ms[i], ray[i], out)
       IN  forEachWingedMeshIntersects (ms, ray, i + 1, r.out, reported \/ r.hit)

RECURSIVE forEachSphereMeshIntersects (_, _, _, _, _)
forEachSphereMeshIntersects (ms, ray, i, out, reported) ==
  IF i > Len (ms) THEN [ out |-> out, reported |-> reported ]
  ELSE LET r == sphereMeshIntersects (ms[i], ray[i], out)
       IN  forEachSphereMeshIntersects (ms, ray, i + 1, r.out, reported \/ r.hit)

\* Scene::Impl::intersects (SelectionMode, ray, WingedFaceIntersection&):
\* what it returns, the record as it leaves it, and whether a mesh reported
\* a hit.
intersects (t, ray, intersection) ==
  LET r == IF t = "Freeform"
             THEN forEachWingedMeshIntersects (wingedMeshes, ray, 1, intersection, FALSE)
             ELSE [ out |-> intersection, reported |-> FALSE ]
  IN  [ result |-> r.out.isIntersection, out |-> r.out, reported |-> r.reported ]

\* Scene::Impl::intersects (ray, SphereNodeIntersection&).
intersectsSphere (ray, intersection) ==
  LET r == forEachSphereMeshIntersects (sphereMeshes, ray, 1, intersection, FALSE)
  IN  [ result |-> r.out.isIntersection, out |-> r.out, reported |-> r.reported ]

\* Scene::Impl::intersects (ray): the ids of the mesh and of the face or
\* node hit under the current selection mode, or a pair of invalid ids.
intersectsRay (ray) ==
  IF selectionMode = "Freeform"
    THEN LET r == intersects (selectionMode, ray.winged, NoIntersection)
         IN  IF r.result THEN << r.out.mesh, r.out.sub >>
                         ELSE << InvalidId, InvalidId >>
    ELSE IF selectionMode = "SphereNode"
      THEN LET r == intersectsSphere (ray.sphere, NoIntersection)
           IN  IF r.result THEN << r.out.mesh, r.out.sub >>
                           ELSE << InvalidId, InvalidId >>
      ELSE << InvalidId, InvalidId >>

\* Whether a ray hits a mesh of the scene at all.
hitsSomeMesh (ray) ==
  \/ \E i \in 1 .. Len (wingedMeshes) : ray.winged[i] # Miss
  \/ \E i \in 1 .. Len (sphereMeshes) : ray.sphere[i] # Miss

\* The ids of the meshes a list holds.
idsOf (ms) == { ms[i] : i \in 1 .. Len (ms) }

\* newWingedMesh (t, id). IdMapPtr::insert of an id the map resolves
\* already either fails an assertion or leaves the id resolvable.
NewWingedMesh ==
  /\ ~ failed
  /\ Len (wingedMeshes) < MaxMeshes
  /\ \E t \in MeshTypes, id \in MeshIds :
       LET arg == [ id |-> id, fin |-> 0, type |-> t ] IN
       \/ /\ t # "Freeform"
          /\ Abort ("newWingedMesh", arg)
       \/ /\ t = "Freeform"
          /\ id \in wingedMeshIdMap
          /\ Abort ("newWingedMesh", arg)
       \/ /\ t = "Freeform"
          /\ wingedMeshes' = Append (wingedMeshes, id)
          /\ wingedMeshIdMap' = wingedMeshIdMap \cup { id }
          /\ RecordScene ("newWingedMesh", arg, [ registered |-> id \in wingedMeshIdMap ])
          /\ UNCHANGED << progVars, failed, dirty, sphereMeshes, sphereMeshIdMap
                        , selection, selectionMode >>

\* Mutant of DeleteWingedMesh: the mesh stays in the list.
DeleteWingedMeshKeepsList ==
  /\ ~ failed
  /\ \E id \in MeshIds :
       LET arg == [ id |-> id, fin |-> 0 ] IN
       IF id \notin wingedMeshIdMap
         THEN Abort ("deleteWingedMesh", arg)
         ELSE /\ wingedMeshIdMap' = wingedMeshIdMap \ { id }
              /\ wingedMeshes' = wingedMeshes
              /\ RecordScene ("deleteWingedMesh", arg, [ meshes |-> Len (wingedMeshes) ])
              /\ UNCHANGED << progVars, failed, dirty, sphereMeshes, sphereMeshIdMap
                            , selection, selectionMode >>

DeleteWingedMesh ==
  /\ ~ failed
  /\ \E id \in MeshIds :
       LET arg == [ id |-> id, fin |-> 0 ] IN
       IF id \notin wingedMeshIdMap
         THEN Abort ("deleteWingedMesh", arg)
         ELSE /\ wingedMeshIdMap' = wingedMeshIdMap \ { id }
              /\ wingedMeshes' = SelectSeq (wingedMeshes, LAMBDA m : m # id)
              /\ RecordScene ("deleteWingedMesh", arg, [ meshes |-> Len (wingedMeshes) ])
              /\ UNCHANGED << progVars, failed, dirty, sphereMeshes, sphereMeshIdMap
                            , selection, selectionMode >>

NewSphereMesh ==
  /\ ~ failed
  /\ Len (sphereMeshes) < MaxMeshes
  /\ \E id \in MeshIds :
       LET arg == [ id |-> id, fin |-> 0 ] IN
       \/ /\ id \in sphereMeshIdMap
          /\ Abort ("newSphereMesh", arg)
       \/ /\ sphereMeshes' = Append (sphereMeshes, id)
          /\ sphereMeshIdMap' = sphereMeshIdMap \cup { id }
          /\ RecordScene ("newSphereMesh", arg, [ registered |-> id \in sphereMeshIdMap ])
          /\ UNCHANGED << progVars, failed, dirty, wingedMeshes, wingedMeshIdMap
                        , selection, selectionMode >>

DeleteSphereMesh ==
  /\ ~ failed
  /\ \E id \in MeshIds :
       LET arg == [ id |-> id, fin |-> 0 ] IN
       IF id \notin sphereMeshIdMap
         THEN Abort ("deleteSphereMesh", arg)
         ELSE /\ sphereMeshIdMap' = sphereMeshIdMap \ { id }
              /\ sphereMeshes' = SelectSeq (sphereMeshes, LAMBDA m : m # id)
              /\ RecordScene ("deleteSphereMesh", arg, [ meshes |-> Len (sphereMeshes) ])
              /\ UNCHANGED << progVars, failed, dirty, wingedMeshes, wingedMeshIdMap
                            , selection, selectionMode >>

\* intersects (t, ray, intersection) called with any mode, any ray and any
\* record: a query, which leaves the scene as it is.
Intersects ==
  /\ ~ failed
  /\ \E t \in SelectionModes, ray \in Rays (Len (wingedMeshes))
      , intersection \in Intersections :
       LET r == intersects (t, ray, intersection) IN
       RecordScene ( "intersects", [ id |-> 0, fin |-> 0, mode |-> t ]
                   , [ result |-> r.result, reported |-> r.reported
                     , entry |-> intersection, out |-> r.out ] )
  /\ UNCHANGED << progVars, failed, dirty, sceneVars >>

UnselectAll ==
  /\ ~ failed
  /\ selection' = selectionReset
  /\ RecordScene ("unselectAll", NoArg, [ selections |-> numSelections ])
  /\ UNCHANGED << progVars, failed, dirty, wingedMeshes, sphereMeshes
                , wingedMeshIdMap, sphereMeshIdMap, selectionMode >>

\* Mutant of ChangeSelectionMode: the selection is not reset.
ChangeSelectionModeKeepsSelection ==
  /\ ~ failed
  /\ \E t \in SelectionModes :
       /\ selection' = selection
       /\ selectionMode' = t
       /\ RecordScene ( "changeSelectionMode", [ id |-> 0, fin |-> 0, mode |-> t ]
                      , [ selections |-> numSelections
                        , majors |-> numMajors (selection)
                        , minors |-> numMinors (selection) ] )
  /\ UNCHANGED << progVars, failed, dirty, wingedMeshes, sphereMeshes
                , wingedMeshIdMap, sphereMeshIdMap >>

ChangeSelectionMode ==
  /\ ~ failed
  /\ \E t \in SelectionModes :
       /\ selection' = selectionReset
       /\ selectionMode' = t
       /\ RecordScene ( "changeSelectionMode", [ id |-> 0, fin |-> 0, mode |-> t ]
                      , [ selections |-> numSelections
                        , majors |-> numMajors (selection)
                        , minors |-> numMinors (selection) ] )
  /\ UNCHANGED << progVars, failed, dirty, wingedMeshes, sphereMeshes
                , wingedMeshIdMap, sphereMeshIdMap >>

SelectIntersection ==
  /\ ~ failed
  /\ \E ray \in [ winged : Rays (Len (wingedMeshes))
                , sphere : Rays (Len (sphereMeshes)) ] :
       LET intersection == intersectsRay (ray) IN
       /\ selection' =
            IF intersection[1] # InvalidId
              THEN IF isMajor (selectionMode)
                     THEN toggleMajor (selection, intersection[1])
                     ELSE toggleMinor (selection, intersection[1], intersection[2])
              ELSE selection
       /\ RecordScene ( "selectIntersection", [ id |-> intersection[1], fin |-> 0 ]
                      , [ hitsSomeMesh |-> hitsSomeMesh (ray)
                        , selections |-> numSelections ] )
  /\ UNCHANGED << progVars, failed, dirty, wingedMeshes, sphereMeshes
                , wingedMeshIdMap, sphereMeshIdMap, selectionMode >>

\* ------------------------------------------------------------- specifications
Next ==
  \/ InitOctreeRoot
  \/ AddVertex
  \/ PopVertex
  \/ AddEdge
  \/ DeleteEdge
  \/ AddFace
  \/ DeleteFace
  \/ RealignFace
  \/ Write
  \/ BufferData
  \/ WriteAndBuffer
  \/ Reset

Spec == Init /\ [][Next]_vars

\* The mesh under sequences of addFace, deleteFace and write alone (after
\* the initOctreeRoot that makes the octree usable).
NextFaces ==
  \/ InitOctreeRoot
  \/ AddFace
  \/ DeleteFace
  \/ Write

SpecFaces == Init /\ [][NextFaces]_vars

\* The same sequences with reset () among them (initOctreeRoot makes the
\* mesh usable again after a reset).
NextFacesReset ==
  \/ InitOctreeRoot
  \/ AddFace
  \/ DeleteFace
  \/ Write
  \/ Reset

SpecFacesReset == Init /\ [][NextFacesReset]_vars

\* The edge store on its own, with room for several edges of the same id.
NextEdges ==
  \/ AddEdgeOf (MaxEdgesAlone, EdgeIdsAlone)
  \/ DeleteEdge

SpecEdges == Init /\ [][NextEdges]_vars

\* The scene's winged meshes: their registration and the ray query on them.
NextWingedMeshes ==
  \/ NewWingedMesh
  \/ DeleteWingedMesh
  \/ Intersects

SpecWingedMeshes == InitOfScene /\ [][NextWingedMeshes]_vars

\* The scene: its mesh lists and id maps, its selection and its queries.
NextScene ==
  \/ NewWingedMesh
  \/ DeleteWingedMesh
  \/ NewSphereMesh
  \/ DeleteSphereMesh
  \/ Intersects
  \/ UnselectAll
  \/ ChangeSelectionMode
  \/ SelectIntersection

SpecScene == InitOfScene /\ [][NextScene]_vars

\* ------------------------------------------------------------- claims
\* C1 -- Slot reuse. Whenever addFace runs with at least one free offset, the
\* new face gets the smallest free offset, that offset leaves the free set
\* and numIndices () is unchanged; only with an empty free set does the new
\* face get offset numIndices () and the buffer grow by 3. In particular,
\* after N faces were built on an empty mesh (no free offset, 3N indices),
\* deleting a face other than the last built and adding one face leaves
\* numIndices () at 3N.
C1_SlotReuse ==
  [][ last'.op = "addFace" =>
        /\ ~ failed'
        /\ last'.arg \in Faces (octree')
        /\ IF freeFirstIndexNumbers # {}
             THEN /\ \A x \in freeFirstIndexNumbers : last'.arg.fin <= x
                  /\ last'.arg.fin \in freeFirstIndexNumbers
                  /\ freeFirstIndexNumbers' = freeFirstIndexNumbers \ { last'.arg.fin }
                  /\ numIndices' = numIndices
             ELSE /\ last'.arg.fin = numIndices
                  /\ numIndices' = numIndices + 3
                  /\ freeFirstIndexNumbers' = {}
        /\ ( /\ last.op = "deleteFace"
             /\ last.pre.free = {}
             /\ last.pre.numIndices = 3 * last.pre.numFaces
             /\ last.arg.fin < last.pre.numIndices - 3 )
           => numIndices' = last.pre.numIndices
    ]_vars

\* C1's case: a face was deleted, two offsets were free, and addFace gave
\* the new face the smaller one without growing the buffer.
C1_Witness ==
  /\ last.op = "addFace"
  /\ prev.op = "deleteFace"
  /\ Cardinality (last.pre.free) >= 2
  /\ last.arg.fin = Min (last.pre.free)
  /\ numIndices = last.pre.numIndices
  /\ ~ failed

\* C2 -- Trailing shrink. deleteFace on the face whose firstIndexNumber is
\* numIndices () - 3 reduces numIndices () by exactly 3 and leaves the free
\* set as it is; deleteFace on any other face leaves numIndices () as it is
\* and adds that face's offset, and nothing else, to the free set.
C2_TrailingShrink ==
  [][ last'.op = "deleteFace" =>
        /\ ~ failed'
        /\ last'.arg \in Faces (octree)
        /\ IF last'.arg.fin = numIndices - 3
             THEN /\ numIndices' = numIndices - 3
                  /\ freeFirstIndexNumbers' = freeFirstIndexNumbers
             ELSE /\ numIndices' = numIndices
                  /\ freeFirstIndexNumbers' = freeFirstIndexNumbers \cup { last'.arg.fin }
    ]_vars

\* C2's case: the trailing face was deleted while another offset was free.
C2_Witness ==
  /\ last.op = "deleteFace"
  /\ last.arg.fin = last.pre.numIndices - 3
  /\ numIndices = last.pre.numIndices - 3
  /\ last.pre.free # {}
  /\ freeFirstIndexNumbers = last.pre.free

\* The step that deletes the face the step before it added.
AddThenDelete ==
  /\ last.op = "addFace"
  /\ last'.op = "deleteFace"
  /\ last'.arg.id = last.arg.id

\* C3, as claimed -- Round trip. addFace followed at once by deleteFace of
\* the face just added restores numFaces (), numIndices () and the free set
\* to their values before the addFace, whatever the free set held.
C3_RoundTripAsClaimed ==
  [][ AddThenDelete =>
        /\ numFaces' = last.pre.numFaces
        /\ numIndices' = last.pre.numIndices
        /\ freeFirstIndexNumbers' = last.pre.free
    ]_vars

\* C3, amended -- addFace followed at once by deleteFace of the face just
\* added restores numFaces (); it restores numIndices () and the free set
\* too, unless the addFace reused a free offset that is the trailing triple
\* (numIndices () - 3): then the deleteFace shrinks the buffer by 3 and the
\* offset stays out of the free set.
C3_RoundTrip ==
  [][ AddThenDelete =>
        /\ numFaces' = last.pre.numFaces
        /\ IF last.pre.free # {} /\ last.arg.fin = last.pre.numIndices - 3
             THEN /\ numIndices' = last.pre.numIndices - 3
                  /\ freeFirstIndexNumbers' = last.pre.free \ { last.arg.fin }
             ELSE /\ numIndices' = last.pre.numIndices
                  /\ freeFirstIndexNumbers' = last.pre.free
    ]_vars

\* C3's case: a face was added while an offset was free and deleted at once.
C3_Witness ==
  /\ last.op = "deleteFace"
  /\ prev.op = "addFace"
  /\ prev.id = last.arg.id
  /\ freeFirstIndexNumbers # {}
  /\ freeFirstIndexNumbers = last.pre.free \cup { last.arg.fin }

\* C4, as claimed -- bufferData () is valid only from Clean: whenever a
\* structural edit (addFace, deleteFace, addVertex, popVertex, addEdge,
\* deleteEdge) happened since the last write (), bufferData () fails its
\* assertion, and it succeeds only when write () ran since the last edit.
C4_BufferDataOnlyFromCleanAsClaimed ==
  [][ last'.op = "bufferData" => (failed' <=> dirty) ]_vars

\* C4, amended -- bufferData () fails its assertion exactly when the free set
\* is not empty. That happens only after a structural edit since the last
\* write (), so bufferData () always succeeds from Clean; from Dirty it fails
\* only if a free offset is pending, and succeeds otherwise.
C4_BufferDataAssertsOnFreeSlots ==
  [][ last'.op = "bufferData" =>
        /\ failed' <=> (freeFirstIndexNumbers # {})
        /\ failed' => dirty
    ]_vars

\* C4's case: bufferData () was called with a free offset pending, after a
\* structural edit, and failed.
C4_Witness ==
  /\ last.op = "bufferData"
  /\ last.pre.dirty
  /\ last.pre.free # {}
  /\ failed

\* C5 -- After write () in any state reached by addFace and deleteFace,
\* write () has completed, numIndices () = 3 * numFaces () and the free set is
\* empty, on the repack path and on the in-place path.
C5_WriteRestoresPacking ==
  last.op = "write" =>
    /\ ~ failed
    /\ numIndices = 3 * numFaces
    /\ freeFirstIndexNumbers = {}

\* C5's case: write () ran with free offsets pending (the repack path) and
\* faces left to renumber.
C5_Witness ==
  /\ last.op = "write"
  /\ last.pre.free # {}
  /\ last.pre.numIndices > 3 * last.pre.numFaces
  /\ numFaces >= 2
  /\ ~ failed

\* C6 -- write () is idempotent: a second write () with no edit in between
\* leaves the index buffer (contents and length), every face's
\* firstIndexNumber and the free set as the first write () left them.
C6_WriteIdempotent ==
  [][ (last.op = "write" /\ ~ failed /\ last'.op = "write") =>
        /\ ~ failed'
        /\ meshIndices' = meshIndices
        /\ octree' = octree
        /\ freeFirstIndexNumbers' = freeFirstIndexNumbers
    ]_vars

\* C6's case: write () ran twice in a row over at least two faces.
C6_Witness ==
  /\ last.op = "write"
  /\ prev.op = "write"
  /\ numFaces >= 2
  /\ ~ failed

\* C7, as claimed -- in every state reached by addFace and deleteFace, no
\* offset of the free set equals numIndices () - 3.
C7_NoTrailingFreeEntryAsClaimed ==
  \A x \in freeFirstIndexNumbers : x # numIndices - 3

\* C7, amended -- deleteFace never adds to the free set the offset of the
\* triple that is trailing when it runs (numIndices () - 3 before the
\* delete), and every free offset lies inside the buffer (at most
\* numIndices () - 3); a free offset may come to equal numIndices () - 3 when
\* a later deleteFace shrinks the buffer down to it.
C7_DeleteNeverFreesTrailing ==
  [][ /\ \A x \in freeFirstIndexNumbers' : x <= numIndices' - 3
      /\ last'.op = "deleteFace" =>
           \A x \in freeFirstIndexNumbers' \ freeFirstIndexNumbers : x # numIndices - 3
    ]_vars

\* C7's case: after a deleteFace, a free offset is the trailing triple.
C7_Witness ==
  /\ last.op = "deleteFace"
  /\ numIndices - 3 \in freeFirstIndexNumbers
  /\ numIndices = last.pre.numIndices - 3

\* C8 -- Vertex/buffer parity: after every sequence of addVertex, popVertex
\* and reset the topology store holds as many vertices as the render buffer
\* holds positions, so the assertion of numVertices () does not fail.
C8_VertexBufferParity ==
  /\ Len (vertices) = Len (meshVertices)
  /\ ~ numVerticesAsserts

\* C8's case: a vertex was added and popped again.
C8_Witness ==
  /\ last.op = "popVertex"
  /\ prev.op = "addVertex"
  /\ last.pre.numVertices = Len (vertices) + 1
  /\ Len (meshVertices) = Len (vertices)

\* C9 -- Empty state after reset: after reset (), from any state, isEmpty ()
\* is true and numVertices (), numEdges (), numFaces () and numIndices () are
\* 0, so the assertion of an initOctreeRoot that follows does not fail.
C9_EmptyAfterReset ==
  /\ last.op = "reset" =>
       /\ ~ failed
       /\ ~ numVerticesAsserts
       /\ isEmpty
       /\ numVertices = 0 /\ numEdges = 0 /\ numFaces = 0 /\ numIndices = 0
  /\ (last.op = "initOctreeRoot" /\ prev.op = "reset") => ~ failed

\* C9's case: reset () ran on a mesh that held vertices, edges, faces and
\* indices.
C9_Witness ==
  /\ last.op = "reset"
  /\ last.pre.numVertices > 0
  /\ last.pre.numEdges > 0
  /\ last.pre.numFaces > 0
  /\ last.pre.numIndices > 0
  /\ isEmpty

\* C10 -- deleteFace does not repack: after deleteFace (f), face (f.id) finds
\* nothing in the octree, numFaces () is one less, and every other live face
\* is still stored with the firstIndexNumber it had.
C10_DeleteFaceFrame ==
  [][ last'.op = "deleteFace" =>
        /\ face (octree', last'.arg.id) = {}
        /\ numFaces' = numFaces - 1
        /\ \A g \in Faces (octree) : g.id # last'.arg.id => g \in Faces (octree')
    ]_vars

\* C10's case: a face other than the trailing one was deleted and other
\* faces are still live.
C10_Witness ==
  /\ last.op = "deleteFace"
  /\ last.arg.fin \in freeFirstIndexNumbers
  /\ face (octree, last.arg.id) = {}
  /\ numFaces >= 2
  /\ numFaces = last.pre.numFaces - 1

\* C12 -- reset () returns the whole mesh, the index-slot allocator included,
\* to the initial Clean state: right after reset () the free set is empty, a
\* bufferData () that follows a reset () does not fail its assertion, and
\* the first addFace after reset () and initOctreeRoot () is given offset 0
\* and grows the index buffer to exactly 3 entries.
C12_ResetClearsAllocator ==
  /\ last.op = "reset" => freeFirstIndexNumbers = {}
  /\ (last.op = "bufferData" /\ prev.op = "reset") => ~ failed
  /\ ( /\ last.op = "addFace"
       /\ prev.op = "initOctreeRoot"
       /\ last.pre.numFaces = 0
       /\ last.pre.numIndices = 0 )
     => (last.arg.fin = 0 /\ numIndices = 3)

\* C13 -- writeIndices path selection and renumbering. A write () with a
\* non-empty free set completes, resizes the index array to 3 * numFaces ()
\* and leaves the i-th face visited (i from 0) with firstIndexNumber 3 * i,
\* the order and the ids of the faces unchanged and the free set empty, so
\* the live offsets are exactly 0, 3, ..., 3 * (numFaces () - 1). A write ()
\* with an empty free set leaves every face with the firstIndexNumber it had
\* and numIndices () unchanged.
C13_WritePaths ==
  [][ last'.op = "write" =>
        IF freeFirstIndexNumbers # {}
          THEN /\ ~ failed'
               /\ numIndices' = 3 * numFaces
               /\ numFaces' = numFaces
               /\ \A i \in 1 .. numFaces :
                    octree'.faces[i] = [ id |-> octree.faces[i].id
                                       , fin |-> 3 * (i - 1) ]
               /\ { f.fin : f \in Faces (octree') }
                    = { 3 * k : k \in 0 .. numFaces - 1 }
               /\ freeFirstIndexNumbers' = {}
          ELSE /\ octree'.faces = octree.faces
               /\ numIndices' = numIndices
               /\ freeFirstIndexNumbers' = {}
    ]_vars

\* C13's case: a write () that found free offsets renumbered two or more
\* faces of which the first visited is not the one built first.
C13_Witness ==
  /\ last.op = "write"
  /\ ~ failed
  /\ last.pre.free # {}
  /\ numFaces >= 2
  /\ octree.faces[1].id > octree.faces[2].id
  /\ octree.faces[1].fin = 0
  /\ octree.faces[2].fin = 3
  /\ numIndices < last.pre.numIndices

\* C15 -- Slot accounting. In every state reached by addFace, deleteFace and
\* write on a mesh that started empty, numIndices () is three times the
\* number of live faces plus the number of free offsets.
C15_SlotAccounting ==
  numIndices = 3 * (numFaces + Cardinality (freeFirstIndexNumbers))

\* C15's case: live faces and free offsets at the same time, after an
\* addFace that reused one of two free offsets.
C15_Witness ==
  /\ last.op = "addFace"
  /\ Cardinality (last.pre.free) = 2
  /\ Cardinality (freeFirstIndexNumbers) = 1
  /\ numFaces = 2
  /\ numIndices = 9

\* C16 -- Slot exclusivity. In every state reached by addFace, deleteFace,
\* write and reset (followed by initOctreeRoot), every live face's
\* firstIndexNumber is a multiple of 3 with firstIndexNumber + 3 at most
\* numIndices (), no two live faces share a firstIndexNumber, and no live
\* face's firstIndexNumber is in the free set.
C16_SlotExclusivity ==
  /\ \A f \in Faces (octree) :
       /\ f.fin % 3 = 0
       /\ f.fin + 3 <= numIndices
       /\ f.fin \notin freeFirstIndexNumbers
  /\ \A f, g \in Faces (octree) : f.fin = g.fin => f = g

\* A write () on the in-place path (empty free set) meets a face whose slot
\* is not in the index array: Mesh::setIndex fails its assertion.
WriteHitsMissingSlot ==
  /\ freeFirstIndexNumbers = {}
  /\ \E f \in Faces (octree) : f.fin + 3 > numIndices

\* C17 -- writeAndBuffer () never fails bufferData's assertion that no free
\* offset is left: whatever the free set holds on entry, write () has
\* emptied it before bufferData () runs. (A writeAndBuffer () fails only
\* where its write () fails, on a face whose slot is missing.)
C17_WriteAndBufferNeverDirty ==
  [][ last'.op = "writeAndBuffer" =>
        /\ failed' => WriteHitsMissingSlot
        /\ ~ failed' => freeFirstIndexNumbers' = {}
        /\ freeFirstIndexNumbers # {} => ~ failed'
    ]_vars

\* C17's case: writeAndBuffer () was entered with free offsets and faces
\* still live, and completed.
C17_Witness ==
  /\ last.op = "writeAndBuffer"
  /\ last.pre.free # {}
  /\ last.pre.numFaces >= 1
  /\ ~ failed
  /\ freeFirstIndexNumbers = {}
  /\ ~ dirty

\* C14 -- The edge store. addEdge (prototype) increases numEdges () by
\* exactly 1 and appends an edge carrying the prototype's id, whether or not
\* an edge of that id is stored already; deleteEdge (e) removes exactly the
\* stored edge e, so numEdges () decreases by 1 and every other edge, those
\* of the same id included, stays in place and in order; addEdge followed by
\* deleteEdge of the edge it returned restores the edge store.
C14_EdgeStore ==
  [][ /\ last'.op = "addEdge" =>
           /\ numEdges' = numEdges + 1
           /\ SubSeq (edges', 1, numEdges) = edges
           /\ edges'[numEdges'].id = last'.arg.id
           /\ edges'[numEdges'].iterator = last'.arg.iterator
      /\ last'.op = "deleteEdge" =>
           /\ numEdges' = numEdges - 1
           /\ \E p \in 1 .. numEdges :
                /\ edges[p] = [ id |-> last'.arg.id
                              , iterator |-> last'.arg.iterator ]
                /\ edges' = RemoveAt (edges, p)
      /\ ( /\ last.op = "addEdge"
           /\ last'.op = "deleteEdge"
           /\ last'.arg.iterator = last.arg.iterator )
         => /\ edges' = SubSeq (edges, 1, numEdges - 1)
            /\ numEdges' = last.pre.numEdges
    ]_vars

\* C14's case: of three stored edges of one id the middle one was deleted,
\* and the other two are still stored, in order.
C14_Witness ==
  /\ last.op = "deleteEdge"
  /\ last.arg.iterator = 2
  /\ numEdges = 2
  /\ edges[1] = [ id |-> last.arg.id, iterator |-> 1 ]
  /\ edges[2] = [ id |-> last.arg.id, iterator |-> 3 ]

\* C11 -- Scene::intersects (mode, ray, out) returns true only if some
\* winged mesh reported a hit for this ray during this call; when no mesh
\* is hit (mode not Freeform included, where no mesh is asked) it returns
\* false and leaves out untouched, whatever out held on entry.
C11_IntersectsReportsHits ==
  last.op = "intersects" =>
    /\ last.res.result => last.res.reported
    /\ ~ last.res.reported => (~ last.res.result /\ last.res.out = last.res.entry)

\* C18 -- Scene registry consistency. After any sequence of newWingedMesh
\* (Freeform, id) and deleteWingedMesh (id), the ids the id map resolves are
\* the ids of the meshes in the scene's mesh list; deleteWingedMesh of an
\* id that is not registered fails its assertion and changes nothing.
C18_RegistryConsistent ==
  [][ /\ wingedMeshIdMap' = idsOf (wingedMeshes')
      /\ (last'.op = "deleteWingedMesh" /\ last'.arg.id \notin wingedMeshIdMap)
           => /\ failed'
              /\ UNCHANGED << wingedMeshes, wingedMeshIdMap >>
      /\ (last'.op = "deleteWingedMesh" /\ last'.arg.id \in wingedMeshIdMap)
           => /\ ~ failed'
              /\ last'.arg.id \notin wingedMeshIdMap'
    ]_vars

\* C18's case: of two registered meshes the one registered first was
\* deleted; the other one is still in the list and still resolved.
C18_Witness ==
  /\ last.op = "deleteWingedMesh"
  /\ ~ failed
  /\ last.res.meshes = 2
  /\ Len (wingedMeshes) = 1
  /\ wingedMeshes[1] # last.arg.id
  /\ wingedMeshes[1] < last.arg.id
  /\ wingedMeshIdMap = { wingedMeshes[1] }

\* C19 -- Right after changeSelectionMode (m), for any m and any selection
\* before it, numSelections () is 0; and selectIntersection (ray) with a ray
\* that hits no mesh leaves the selection and the selection mode as they
\* were.
C19_SelectionFrame ==
  [][ /\ last'.op = "changeSelectionMode" => numSelections' = 0
      /\ (last'.op = "selectIntersection" /\ ~ last'.res.hitsSomeMesh)
           => UNCHANGED << selection, selectionMode >>
    ]_vars

\* C19's case: with two nodes selected a selectIntersection found nothing,
\* and the changeSelectionMode after it, to the mode of whole meshes, left
\* nothing selected.
C19_Witness ==
  /\ last.op = "changeSelectionMode"
  /\ last.arg.mode = "Freeform"
  /\ last.res.selections = 2
  /\ last.res.minors = 2
  /\ prev.op = "selectIntersection"
  /\ prev.id = InvalidId
  /\ numSelections = 0
  /\ selection = selectionReset

====
